---- MODULE Spec2Model ----
(***************************************************************************)
(* Model of the AST code chunker (src/ast_code_chunker/ast_chunker.py).    *)
(*                                                                         *)
(* Text is modelled by TLA+ strings, character by character: a source is   *)
(* a string with "\n" line ends, a chunk's content is a string.  Python's  *)
(* Optional[str] is modelled by a tuple: None is <<>> and the string s is  *)
(* <<s>>.  The parser (ast.parse) is library code: it is modelled by a     *)
(* catalogue of statements, each given with its text and with the nodes    *)
(* the parser builds for that text.                                        *)
(***************************************************************************)
EXTENDS Integers, Sequences, FiniteSets, TLC

(***************************************************************************)
(* Python values and string primitives.                                    *)
(***************************************************************************)

None == <<>>

Some(s) == <<s>>

Min(a, b) == IF a <= b THEN a ELSE b

\* s[i] for a 1-based index inside the string.
CharAt(s, i) == SubSeq(s, i, i)

\* s[:n]
Prefix(s, n) == SubSeq(s, 1, Min(n, Len(s)))

\* s.startswith(p)
StartsWith(s, p) == Len(s) >= Len(p) /\ SubSeq(s, 1, Len(p)) = p

\* s.endswith(p)
EndsWith(s, p) == Len(s) >= Len(p) /\ SubSeq(s, Len(s) - Len(p) + 1, Len(s)) = p

\* sep.join(parts)
RECURSIVE Join(_, _)
Join(parts, sep) ==
    IF parts = <<>> THEN ""
    ELSE IF Len(parts) = 1 THEN parts[1]
    ELSE parts[1] \o sep \o Join(Tail(parts), sep)

\* The positions of the line ends of s.
NlPositions(s) ==
    SelectSeq([i \in 1..Len(s) |-> i], LAMBDA i : CharAt(s, i) = "\n")

\* s.split("\n"): the pieces of s between the line ends; the last piece is
\* kept even when empty.
SplitNl(s) ==
    LET pos == NlPositions(s)
        from(k) == IF k = 1 THEN 1 ELSE pos[k - 1] + 1
        to(k)   == IF k = Len(pos) + 1 THEN Len(s) ELSE pos[k] - 1
    IN [k \in 1..(Len(pos) + 1) |-> SubSeq(s, from(k), to(k))]

\* The line boundaries of str.splitlines() that the texts here hold: the
\* line feed and the form feed.  (The parser ends a line at the line feed
\* only.)
LineBoundaries == {"\n", "\f"}

\* str.splitlines(): the pieces of s between the line boundaries; a final
\* boundary opens no further line and the empty string has no line.
splitlines(s) ==
    IF s = "" THEN <<>>
    ELSE LET pos == SelectSeq([i \in 1..Len(s) |-> i],
                              LAMBDA i : CharAt(s, i) \in LineBoundaries)
             from(k) == IF k = 1 THEN 1 ELSE pos[k - 1] + 1
             to(k)   == IF k = Len(pos) + 1 THEN Len(s) ELSE pos[k] - 1
             parts == [k \in 1..(Len(pos) + 1) |-> SubSeq(s, from(k), to(k))]
         IN IF parts[Len(parts)] = "" THEN SubSeq(parts, 1, Len(parts) - 1)
            ELSE parts

\* Number of leading blanks of a line.
RECURSIVE LeadingBlanks(_, _)
LeadingBlanks(line, i) ==
    IF i <= Len(line) /\ CharAt(line, i) = " "
    THEN LeadingBlanks(line, i + 1)
    ELSE i - 1

IsBlankLine(line) == LeadingBlanks(line, 1) = Len(line)

RECURSIVE MinIndent(_, _)
MinIndent(lines, best) ==
    IF lines = <<>> THEN best
    ELSE LET l == Head(lines)
             k == LeadingBlanks(l, 1)
         IN IF IsBlankLine(l) THEN MinIndent(Tail(lines), best)
            ELSE MinIndent(Tail(lines), IF best < 0 THEN k ELSE Min(best, k))

\* textwrap.dedent(text): lines of blanks only become empty, and the margin
\* common to the other lines is removed from them.
dedent(text) ==
    LET ls     == SplitNl(text)
        margin == MinIndent(ls, -1)
        strip(l) == IF IsBlankLine(l) THEN ""
                    ELSE IF margin > 0 THEN SubSeq(l, margin + 1, Len(l))
                    ELSE l
    IN Join([i \in 1..Len(ls) |-> strip(ls[i])], "\n")

(***************************************************************************)
(* The syntax tree.  A tree is the sequence of its statement nodes in      *)
(* source order; node 0 is the Module.  Every node carries the fields the  *)
(* chunker reads: kind (the node class), name, lineno, end_lineno, parent  *)
(* (index of the enclosing node), args (parameter names of a definition),  *)
(* returns (a return annotation is present), names and module (of an       *)
(* import), targets (the classes of an assignment's targets) and value     *)
(* (the cleaned text of a statement that is a bare string constant).       *)
(* Expression nodes hold no statement, so they change neither the walk     *)
(* order of the statements nor what encloses what, and are left out.       *)
(***************************************************************************)

Stmt(kind, lineno, end_lineno, parent) ==
    [kind |-> kind, name |-> "", lineno |-> lineno, end_lineno |-> end_lineno,
     parent |-> parent, args |-> <<>>, returns |-> FALSE, names |-> <<>>,
     module |-> None, targets |-> <<>>, value |-> None]

Def(kind, name, lineno, end_lineno, parent, args, returns) ==
    [Stmt(kind, lineno, end_lineno, parent)
        EXCEPT !.name = name, !.args = args, !.returns = returns]

Imp(kind, lineno, parent, module, names) ==
    [Stmt(kind, lineno, lineno, parent) EXCEPT !.module = module, !.names = names]

Asg(kind, lineno, parent, targets) ==
    [Stmt(kind, lineno, lineno, parent) EXCEPT !.targets = targets]

Str(lineno, parent, value) ==
    [Stmt("Expr", lineno, lineno, parent) EXCEPT !.value = Some(value)]

\* The statements the inputs are built from: the lines of each, whether the
\* parser accepts them, and the nodes it builds (lines and parents counted
\* from the start of the statement).
Catalogue ==
    [doc    |-> [text  |-> <<"'Doc.'">>, ok |-> TRUE,
                 nodes |-> <<Str(1, 0, "Doc.")>>],
     head   |-> [text  |-> <<"'Doc.'", "import os", "", "X = 1">>, ok |-> TRUE,
                 nodes |-> <<Str(1, 0, "Doc."),
                             Imp("Import", 2, 0, None, <<"os">>),
                             Asg("Assign", 4, 0, <<"Name">>)>>],
     imp    |-> [text  |-> <<"import os">>, ok |-> TRUE,
                 nodes |-> <<Imp("Import", 1, 0, None, <<"os">>)>>],
     from   |-> [text  |-> <<"from a import b, c">>, ok |-> TRUE,
                 nodes |-> <<Imp("ImportFrom", 1, 0, Some("a"), <<"b", "c">>)>>],
     asg    |-> [text  |-> <<"X = 1">>, ok |-> TRUE,
                 nodes |-> <<Asg("Assign", 1, 0, <<"Name">>)>>],
     blank  |-> [text  |-> <<"">>, ok |-> TRUE, nodes |-> <<>>],
     fun    |-> [text  |-> <<"def f(a):", "    return a">>, ok |-> TRUE,
                 nodes |-> <<Def("FunctionDef", "f", 1, 2, 0, <<"a">>, FALSE),
                             Stmt("Return", 2, 2, 1)>>],
     cls    |-> [text  |-> <<"class A:", "    def m(self):", "        pass">>,
                 ok    |-> TRUE,
                 nodes |-> <<Def("ClassDef", "A", 1, 3, 0, <<>>, FALSE),
                             Def("FunctionDef", "m", 2, 3, 1, <<"self">>, FALSE),
                             Stmt("Pass", 3, 3, 2)>>],
     clsdoc |-> [text  |-> <<"class C:", "    'Doc C.'",
                             "    def _p(self, x) -> int:", "        return x">>,
                 ok    |-> TRUE,
                 nodes |-> <<Def("ClassDef", "C", 1, 4, 0, <<>>, FALSE),
                             Str(2, 1, "Doc C."),
                             Def("FunctionDef", "_p", 3, 4, 1, <<"self", "x">>, TRUE),
                             Stmt("Return", 4, 4, 3)>>],
     one    |-> [text  |-> <<"class A: pass">>, ok |-> TRUE,
                 nodes |-> <<Def("ClassDef", "A", 1, 1, 0, <<>>, FALSE),
                             Stmt("Pass", 1, 1, 1)>>],
     onedoc |-> [text  |-> <<"class D: 'doc'">>, ok |-> TRUE,
                 nodes |-> <<Def("ClassDef", "D", 1, 1, 0, <<>>, FALSE),
                             Str(1, 1, "doc")>>],
     nest   |-> [text  |-> <<"class B:", "    class A:", "        def m(self):",
                             "            pass">>,
                 ok    |-> TRUE,
                 nodes |-> <<Def("ClassDef", "B", 1, 4, 0, <<>>, FALSE),
                             Def("ClassDef", "A", 2, 4, 1, <<>>, FALSE),
                             Def("FunctionDef", "m", 3, 4, 2, <<"self">>, FALSE),
                             Stmt("Pass", 4, 4, 3)>>],
     ifdef  |-> [text  |-> <<"if X:", "    def g():", "        pass">>,
                 ok    |-> TRUE,
                 nodes |-> <<Stmt("If", 1, 3, 0),
                             Def("FunctionDef", "g", 2, 3, 1, <<>>, FALSE),
                             Stmt("Pass", 3, 3, 2)>>],
     inner  |-> [text  |-> <<"def o():", "    import sys", "    def i():",
                             "        pass">>,
                 ok    |-> TRUE,
                 nodes |-> <<Def("FunctionDef", "o", 1, 4, 0, <<>>, FALSE),
                             Imp("Import", 2, 1, None, <<"sys">>),
                             Def("FunctionDef", "i", 3, 4, 1, <<>>, FALSE),
                             Stmt("Pass", 4, 4, 3)>>],
     ainner |-> [text  |-> <<"async def w():", "    def j():", "        pass">>,
                 ok    |-> TRUE,
                 nodes |-> <<Def("AsyncFunctionDef", "w", 1, 3, 0, <<>>, FALSE),
                             Def("FunctionDef", "j", 2, 3, 1, <<>>, FALSE),
                             Stmt("Pass", 3, 3, 2)>>],
     chain  |-> [text  |-> <<"a = b = 1">>, ok |-> TRUE,
                 nodes |-> <<Asg("Assign", 1, 0, <<"Name", "Name">>)>>],
     bad    |-> [text  |-> <<"x = (">>, ok |-> FALSE, nodes |-> <<>>]]

\* A program is a sequence of catalogue statements, one below the other.
MaxItems == 2

\* Largest line count of the sources made of unparsable lines only.
MaxBadLines == 101

RECURSIVE SeqsUpTo(_, _)
SeqsUpTo(S, n) ==
    IF n = 0 THEN {<<>>}
    ELSE LET shorter == SeqsUpTo(S, n - 1)
         IN shorter \cup {Append(p, x) : p \in shorter, x \in S}

Programs == SeqsUpTo(DOMAIN Catalogue, MaxItems)

\* The text of a program: every line ends with a line end.
RECURSIVE Render(_)
Render(program) ==
    IF program = <<>> THEN ""
    ELSE Join(Catalogue[Head(program)].text, "\n") \o "\n" \o Render(Tail(program))

\* The nodes the parser builds for a program: those of its statements, with
\* the lines and parents shifted to the statement's place.
RECURSIVE Nodes(_, _, _)
Nodes(program, lineOff, nodeOff) ==
    IF program = <<>> THEN <<>>
    ELSE LET st == Catalogue[Head(program)]
             shifted == [i \in 1..Len(st.nodes) |->
                            [st.nodes[i] EXCEPT
                                !.lineno = @ + lineOff,
                                !.end_lineno = @ + lineOff,
                                !.parent = IF @ = 0 THEN 0 ELSE @ + nodeOff]]
         IN shifted \o Nodes(Tail(program), lineOff + Len(st.text),
                             nodeOff + Len(st.nodes))

Parses(program) == \A i \in 1..Len(program) : Catalogue[program[i]].ok

RECURSIVE Repeat(_, _)
Repeat(s, n) == IF n = 0 THEN "" ELSE s \o Repeat(s, n - 1)

\* Texts of files in other languages, with what ast.parse makes of them:
\* two bare names on two lines are two expression statements, the other
\* texts are no Python.
OtherInputs ==
    {[source |-> "public int f() {}\npublic int f() {}\n", ok |-> FALSE,
      tree |-> <<>>],
     [source |-> "static void main(String args) {\n  run();\n}\n\nfunc <T> id (x)\n{ return x; }\n",
      ok |-> FALSE, tree |-> <<>>],
     [source |-> "function foo() {}\n", ok |-> FALSE, tree |-> <<>>],
     [source |-> "hello\nworld\n", ok |-> TRUE,
      tree |-> <<Stmt("Expr", 1, 1, 0), Stmt("Expr", 2, 2, 0)>>]}

\* Further Python texts: an empty string as the first statement; a
\* docstring of two lines; a class with two methods and a function whose
\* names start with two underscores; a class whose first statement assigns a
\* string of two form feeds and whose second is a method; two imports, an
\* empty line and a function; an annotated assignment.
Examples ==
    {[source |-> "''\nX = 1\n", ok |-> TRUE,
      tree |-> <<Str(1, 0, ""), Asg("Assign", 2, 0, <<"Name">>)>>],
     [source |-> "'''A\nB'''\n", ok |-> TRUE,
      tree |-> <<[Str(1, 0, "A\nB") EXCEPT !.end_lineno = 2]>>],
     [source |-> "class K:\n    def __init__(self):\n        pass\n    def __hid(self):\n        pass\ndef __g():\n    pass\n",
      ok |-> TRUE,
      tree |-> <<Def("ClassDef", "K", 1, 5, 0, <<>>, FALSE),
                 Def("FunctionDef", "__init__", 2, 3, 1, <<"self">>, FALSE),
                 Stmt("Pass", 3, 3, 2),
                 Def("FunctionDef", "__hid", 4, 5, 1, <<"self">>, FALSE),
                 Stmt("Pass", 5, 5, 4),
                 Def("FunctionDef", "__g", 6, 7, 0, <<>>, FALSE),
                 Stmt("Pass", 7, 7, 6)>>],
     [source |-> "class A:\n    x = '\f\f'\n    def m(self): pass\n", ok |-> TRUE,
      tree |-> <<Def("ClassDef", "A", 1, 3, 0, <<>>, FALSE),
                 Asg("Assign", 2, 1, <<"Name">>),
                 Def("FunctionDef", "m", 3, 3, 1, <<"self">>, FALSE),
                 Stmt("Pass", 3, 3, 3)>>],
     [source |-> "import os\nimport sys\n\ndef f():\n    pass\n", ok |-> TRUE,
      tree |-> <<Imp("Import", 1, 0, None, <<"os">>),
                 Imp("Import", 2, 0, None, <<"sys">>),
                 Def("FunctionDef", "f", 4, 5, 0, <<>>, FALSE),
                 Stmt("Pass", 5, 5, 3)>>],
     [source |-> "Y: int = 2\n", ok |-> TRUE,
      tree |-> <<Asg("AnnAssign", 1, 0, <<"Name">>)>>]}

\* The inputs of chunk_code: each source text with what ast.parse makes of it,
\* a tree or a SyntaxError.
Inputs ==
    {[source |-> Render(p), ok |-> Parses(p),
      tree |-> IF Parses(p) THEN Nodes(p, 0, 0) ELSE <<>>] : p \in Programs}
    \cup {[source |-> Repeat("(\n", n), ok |-> FALSE, tree |-> <<>>] :
             n \in 1..MaxBadLines}
    \cup OtherInputs \cup Examples

Sources == {x.source : x \in Inputs}

\* What ast.parse makes of each source text.
ParseTable == [s \in Sources |-> CHOOSE x \in Inputs : x.source = s]

\* ast.parse(source)
ast_parse(source) == ParseTable[source]

\* The children of node p (0 for the Module) in source order.
Children(tree, p) ==
    SelectSeq([i \in 1..Len(tree) |-> i], LAMBDA i : tree[i].parent = p)

Kind(tree, n) == IF n = 0 THEN "Module" ELSE tree[n].kind

\* ast.walk(node): the node, then the nodes below it, breadth first.
RECURSIVE Walk(_, _)
Walk(tree, todo) ==
    IF todo = <<>> THEN <<>>
    ELSE <<Head(todo)>> \o Walk(tree, Tail(todo) \o Children(tree, Head(todo)))

ast_walk(tree, node) == Walk(tree, <<node>>)

\* ast.get_docstring(node): the text of the first statement of the body when
\* that statement is a bare string constant.
get_docstring(tree, node) ==
    LET body == Children(tree, node)
    IN IF body # <<>> /\ tree[body[1]].kind = "Expr" /\ tree[body[1]].value # None
       THEN tree[body[1]].value
       ELSE None

(***************************************************************************)
(* Outcomes.  An operation that can raise yields Return(v) or Raise(e).    *)
(***************************************************************************)

Return(v) == [raised |-> FALSE, exc |-> "", value |-> v]

Raise(e) == [raised |-> TRUE, exc |-> e, value |-> <<>>]

\* The outcome of a statement that appends one chunk to an empty list.
Single(r) == IF r.raised THEN r ELSE Return(<<r.value>>)

\* The outcome of two steps that each extend the chunk list: an exception of
\* the first step leaves before the second.
Then(r1, r2) ==
    IF r1.raised THEN r1
    ELSE IF r2.raised THEN r2
    ELSE Return(r1.value \o r2.value)

\* An Optional as a list of no or one element.
OptSeq(opt) == IF opt # None THEN <<opt[1]>> ELSE <<>>

\* bool(x) of an Optional[str]: None and "" are false.
Truthy(opt) == opt # None /\ opt[1] # ""

\* lines[start:end] for start, end >= 0.
Slice(lines, start, end) == SubSeq(lines, start + 1, Min(end, Len(lines)))

\* hashlib.md5(text.encode()).hexdigest()[:12].  The digest is kept as the
\* text it was computed from: equal texts give equal digests, and digests of
\* different texts are taken to differ.
md5_12(text) == [md5 |-> text]

(***************************************************************************)
(* ASTCodeChunker                                                          *)
(***************************************************************************)

\* chunk_size in _fallback_chunk and in _generic_chunk
chunk_size == 50

\* content[:100] in _create_chunk
IdPrefixLen == 100

\* ASTCodeChunker._create_chunk.  content is an Optional[str]: slicing None
\* raises TypeError.
_create_chunk(content, chunk_type, start_line, end_line, file_path, parent_context, metadata) ==
    IF content = None THEN Raise("TypeError")
    ELSE Return(
        [id |-> md5_12(file_path \o ":" \o ToString(start_line) \o ":"
                       \o Prefix(content[1], IdPrefixLen)),
         content |-> content[1],
         chunk_type |-> chunk_type,
         metadata |-> metadata,
         start_line |-> start_line,
         end_line |-> end_line,
         file_path |-> file_path,
         language |-> "python",
         parent_context |-> parent_context])

\* hasattr(node, 'lineno') and hasattr(node, 'end_lineno')
HasPosition(node) == {"lineno", "end_lineno"} \subseteq DOMAIN node

\* node.end_lineno or node.lineno
EndLine(node) == IF node.end_lineno # 0 THEN node.end_lineno ELSE node.lineno

\* _get_node_source that leaves the common indentation in place.
_get_node_source_raw(tree, n, source, include_body) ==
    LET node  == tree[n]
        lines == splitlines(source)
        body  == Children(tree, n)
        start == node.lineno - 1
        end   == IF ~include_body /\ node.kind \in {"ClassDef", "FunctionDef"}
                    /\ body # <<>>
                 THEN tree[body[1]].lineno - 1
                 ELSE node.end_lineno
        node_lines == Slice(lines, start, end)
    IN IF HasPosition(node) /\ node_lines # <<>>
       THEN Some(Join(node_lines, "\n"))
       ELSE None

\* ASTCodeChunker._get_node_source: the dedented lines of the node, or of its
\* header only (up to the line before the first statement of the body); None
\* when the slice has no line.
_get_node_source(tree, n, source, include_body) ==
    LET node  == tree[n]
        lines == splitlines(source)
        body  == Children(tree, n)
        start == node.lineno - 1
        end   == IF ~include_body /\ node.kind \in {"ClassDef", "FunctionDef"}
                    /\ body # <<>>
                 THEN tree[body[1]].lineno - 1
                 ELSE node.end_lineno
        node_lines == Slice(lines, start, end)
    IN IF HasPosition(node) /\ node_lines # <<>>
       THEN Some(dedent(Join(node_lines, "\n")))
       ELSE None

\* ASTCodeChunker._get_function_signature
_get_function_signature(node) ==
    "def " \o node.name \o "(" \o Join(node.args, ", ") \o ")"
    \o (IF node.returns THEN " -> ..." ELSE "") \o ": ..."

\* _get_import_statement that knows the plain import only.
_get_import_statement_plain(node) ==
    IF node.kind = "Import"
    THEN Some("import " \o Join(node.names, ", "))
    ELSE None

\* ASTCodeChunker._get_import_statement
_get_import_statement(node) ==
    IF node.kind = "Import"
    THEN Some("import " \o Join(node.names, ", "))
    ELSE IF node.kind = "ImportFrom"
    THEN Some("from " \o (IF node.module # None THEN node.module[1] ELSE "")
              \o " import " \o Join(node.names, ", "))
    ELSE None

InSeq(x, s) == \E i \in 1..Len(s) : s[i] = x

\* ASTCodeChunker._is_nested_function: some other class or function
\* definition has the function in its walk.
_is_nested_function(tree, func_node) ==
    LET all == ast_walk(tree, 0)
    IN \E k \in 1..Len(all) :
          /\ Kind(tree, all[k]) \in {"ClassDef", "FunctionDef"}
          /\ all[k] # func_node
          /\ InSeq(func_node, ast_walk(tree, all[k]))

\* ASTCodeChunker._count_lines
_count_lines(text) == Len(splitlines(text))

\* range(0, n, step)
RECURSIVE Range0(_, _, _)
Range0(i, n, step) == IF i >= n THEN <<>> ELSE <<i>> \o Range0(i + step, n, step)

\* _fallback_chunk with the end of each window left unclamped.
_fallback_chunk_unclamped(source, file_path) ==
    LET lines  == splitlines(source)
        starts == Range0(0, Len(lines), chunk_size)
    IN [k \in 1..Len(starts) |->
          LET i == starts[k]
              chunk_lines == Slice(lines, i, i + chunk_size)
          IN _create_chunk(Some(Join(chunk_lines, "\n")), "code_block", i + 1,
                           i + chunk_size, file_path, None,
                           [fallback |-> TRUE]).value]

\* ASTCodeChunker._fallback_chunk
_fallback_chunk(source, file_path) ==
    LET lines  == splitlines(source)
        starts == Range0(0, Len(lines), chunk_size)
    IN [k \in 1..Len(starts) |->
          LET i == starts[k]
              chunk_lines == Slice(lines, i, i + chunk_size)
          IN _create_chunk(Some(Join(chunk_lines, "\n")), "code_block", i + 1,
                           Min(i + chunk_size, Len(lines)), file_path, None,
                           [fallback |-> TRUE]).value]

\* The FunctionDef statements among the given nodes, in order.
FunctionDefs(tree, nodes) ==
    SelectSeq(nodes, LAMBDA i : tree[i].kind = "FunctionDef")

\* x += text for an Optional[str] x: adding to None raises TypeError.
AddTo(x, text) ==
    IF x.raised THEN x
    ELSE IF x.value = None THEN Raise("TypeError")
    ELSE Return(Some(x.value[1] \o text))

\* MethodChunk that sets parent_context only under include_context.
MethodChunk_context_field(self, class_name, item, method_source, has_docstring, file_path) ==
    IF Truthy(method_source)
    THEN <<_create_chunk(
               Some(IF self.include_context
                    THEN "# In class: " \o class_name \o "\n" \o method_source[1]
                    ELSE method_source[1]),
               "method", item.lineno, EndLine(item), file_path,
               IF self.include_context THEN Some(class_name) ELSE None,
               [class_name |-> class_name,
                method_name |-> item.name,
                is_private |-> StartsWith(item.name, "_"),
                is_dunder |-> StartsWith(item.name, "__") /\ EndsWith(item.name, "__"),
                has_docstring |-> has_docstring]).value>>
    ELSE <<>>

\* The chunk of one method in _extract_class, given its source; no chunk when
\* the source is None or empty.
MethodChunk(self, class_name, item, method_source, has_docstring, file_path) ==
    IF Truthy(method_source)
    THEN <<_create_chunk(
               Some(IF self.include_context
                    THEN "# In class: " \o class_name \o "\n" \o method_source[1]
                    ELSE method_source[1]),
               "method", item.lineno, EndLine(item), file_path, Some(class_name),
               [class_name |-> class_name,
                method_name |-> item.name,
                is_private |-> StartsWith(item.name, "_"),
                is_dunder |-> StartsWith(item.name, "__") /\ EndsWith(item.name, "__"),
                has_docstring |-> has_docstring]).value>>
    ELSE <<>>

\* The method chunks of _extract_class (the loop over node.body after the
\* class chunk).
RECURSIVE MethodChunks(_, _, _, _, _, _)
MethodChunks(self, tree, class_name, methods, source, file_path) ==
    IF methods = <<>> THEN <<>>
    ELSE MethodChunk(self, class_name, tree[Head(methods)],
                     _get_node_source(tree, Head(methods), source, TRUE),
                     Truthy(get_docstring(tree, Head(methods))), file_path)
         \o MethodChunks(self, tree, class_name, Tail(methods), source, file_path)

\* class_overview += text, done only when the condition of the if holds.
AddIf(cond, overview, text) == IF cond THEN AddTo(overview, text) ELSE overview

\* The class overview of _extract_class: the header, then the docstring if
\* there is one, then the signatures of the methods if there are any.
ClassOverview(class_header, class_docstring, method_signatures) ==
    AddIf(method_signatures # <<>>,
          AddIf(Truthy(class_docstring), Return(class_header),
                "\n    \"\"\"" \o class_docstring[1] \o "\"\"\""),
          "\n\n    # Methods:\n" \o Join(method_signatures, "\n"))

\* The signature lines of the methods of a class.
MethodSignatures(tree, methods) ==
    [k \in 1..Len(methods) |-> "    " \o _get_function_signature(tree[methods[k]])]

\* The class chunk of _extract_class, given the overview.
ClassChunk(node, overview, has_docstring, num_methods, file_path) ==
    IF overview.raised THEN overview
    ELSE _create_chunk(overview.value, "class", node.lineno, EndLine(node),
             file_path, None,
             [class_name |-> node.name,
              has_docstring |-> has_docstring,
              num_methods |-> num_methods])

\* _extract_class that appends the class chunk after the method chunks.
_extract_class_last(self, tree, n, source, file_path) ==
    Then(Return(MethodChunks(self, tree, tree[n].name,
                             FunctionDefs(tree, Children(tree, n)), source,
                             file_path)),
         Single(ClassChunk(tree[n],
                    ClassOverview(_get_node_source(tree, n, source, FALSE),
                                  get_docstring(tree, n),
                                  MethodSignatures(tree,
                                      FunctionDefs(tree, Children(tree, n)))),
                    Truthy(get_docstring(tree, n)),
                    Len(FunctionDefs(tree, Children(tree, n))),
                    file_path)))

\* ASTCodeChunker._extract_class: the class overview chunk, then one chunk per
\* method of the class body.
_extract_class(self, tree, n, source, file_path) ==
    Then(Single(ClassChunk(tree[n],
                    ClassOverview(_get_node_source(tree, n, source, FALSE),
                                  get_docstring(tree, n),
                                  MethodSignatures(tree,
                                      FunctionDefs(tree, Children(tree, n)))),
                    Truthy(get_docstring(tree, n)),
                    Len(FunctionDefs(tree, Children(tree, n))),
                    file_path)),
         Return(MethodChunks(self, tree, tree[n].name,
                             FunctionDefs(tree, Children(tree, n)), source,
                             file_path)))

\* _extract_function that takes the line of the def for the end line.
_extract_function_one_line(tree, n, source, file_path) ==
    LET node == tree[n]
        func_source == _get_node_source(tree, n, source, TRUE)
    IN IF ~Truthy(func_source) THEN None
       ELSE Some(_create_chunk(func_source, "function", node.lineno,
                     node.lineno, file_path, None,
                     [function_name |-> node.name,
                      is_private |-> StartsWith(node.name, "_"),
                      has_docstring |-> Truthy(get_docstring(tree, n)),
                      num_args |-> Len(node.args)]).value)

\* ASTCodeChunker._extract_function: the chunk as an Optional.
_extract_function(tree, n, source, file_path) ==
    LET node == tree[n]
        func_source == _get_node_source(tree, n, source, TRUE)
    IN IF ~Truthy(func_source) THEN None
       ELSE Some(_create_chunk(func_source, "function", node.lineno,
                     EndLine(node), file_path, None,
                     [function_name |-> node.name,
                      is_private |-> StartsWith(node.name, "_"),
                      has_docstring |-> Truthy(get_docstring(tree, n)),
                      num_args |-> Len(node.args)]).value)

\* list.sort(key=lineno): stable insertion of each node after the nodes whose
\* line is not greater.
RECURSIVE InsertByLine(_, _, _)
InsertByLine(tree, sorted, n) ==
    IF sorted = <<>> THEN <<n>>
    ELSE IF tree[Head(sorted)].lineno <= tree[n].lineno
    THEN <<Head(sorted)>> \o InsertByLine(tree, Tail(sorted), n)
    ELSE <<n>> \o sorted

\* SortByLine that leaves the nodes in the order of the walk.
SortByLine_unsorted(tree, nodes, sorted) == sorted \o nodes

RECURSIVE SortByLine(_, _, _)
SortByLine(tree, nodes, sorted) ==
    IF nodes = <<>> THEN sorted
    ELSE SortByLine(tree, Tail(nodes), InsertByLine(tree, sorted, Head(nodes)))

\* Largest gap between the lines of two imports of one group.
ImportGap == 1

\* GroupImports that also joins imports with one line between them.
RECURSIVE GroupImports_wide(_, _, _, _, _)
GroupImports_wide(tree, nodes, import_groups, current_group, last_line) ==
    IF nodes = <<>>
    THEN IF current_group # <<>> THEN Append(import_groups, current_group)
         ELSE import_groups
    ELSE LET n == Head(nodes)
         IN IF tree[n].lineno - last_line <= ImportGap + 1
            THEN GroupImports_wide(tree, Tail(nodes), import_groups,
                                   Append(current_group, n), tree[n].lineno)
            ELSE GroupImports_wide(tree, Tail(nodes),
                                   IF current_group # <<>>
                                   THEN Append(import_groups, current_group)
                                   ELSE import_groups,
                                   <<n>>, tree[n].lineno)

\* The grouping loop of _extract_imports; last_line starts at -2.
RECURSIVE GroupImports(_, _, _, _, _)
GroupImports(tree, nodes, import_groups, current_group, last_line) ==
    IF nodes = <<>>
    THEN IF current_group # <<>> THEN Append(import_groups, current_group)
         ELSE import_groups
    ELSE LET n == Head(nodes)
         IN IF tree[n].lineno - last_line <= ImportGap
            THEN GroupImports(tree, Tail(nodes), import_groups,
                              Append(current_group, n), tree[n].lineno)
            ELSE GroupImports(tree, Tail(nodes),
                              IF current_group # <<>>
                              THEN Append(import_groups, current_group)
                              ELSE import_groups,
                              <<n>>, tree[n].lineno)

\* ASTCodeChunker._extract_imports: one chunk per group of import statements
\* on neighbouring lines.  The chunk's file_path argument is `source`.
_extract_imports(tree, source) ==
    LET all == ast_walk(tree, 0)
        import_nodes == SelectSeq(all, LAMBDA i :
                            Kind(tree, i) \in {"Import", "ImportFrom"})
        sorted == SortByLine(tree, import_nodes, <<>>)
        import_groups == GroupImports(tree, sorted, <<>>, <<>>, -2)
        chunkOf(group) ==
            LET rendered == [k \in 1..Len(group) |->
                                _get_import_statement(tree[group[k]])]
                kept  == SelectSeq(rendered, Truthy)
                lines == [k \in 1..Len(kept) |-> kept[k][1]]
            IN IF lines # <<>>
               THEN <<_create_chunk(Some(Join(lines, "\n")), "import",
                          tree[group[1]].lineno, tree[group[Len(group)]].lineno,
                          source, None, [num_imports |-> Len(lines)]).value>>
               ELSE <<>>
        RECURSIVE collect(_)
        collect(gs) == IF gs = <<>> THEN <<>>
                       ELSE chunkOf(Head(gs)) \o collect(Tail(gs))
    IN IF import_nodes = <<>> THEN <<>> ELSE collect(import_groups)

\* ASTCodeChunker._extract_globals: the chunk as an Optional.  An Assign
\* contributes its source once per target that is a plain name, an AnnAssign
\* once when its target is one.  The chunk's file_path argument is `source`.
_extract_globals(tree, source) ==
    LET body == Children(tree, 0)
        linesOf(n) ==
            LET node == tree[n]
                line == _get_node_source(tree, n, source, TRUE)
                hits == IF node.kind = "Assign"
                        THEN SelectSeq(node.targets, LAMBDA t : t = "Name")
                        ELSE IF node.kind = "AnnAssign" /\ node.targets = <<"Name">>
                        THEN <<"Name">>
                        ELSE <<>>
            IN IF Truthy(line) THEN [k \in 1..Len(hits) |-> line[1]] ELSE <<>>
        RECURSIVE collect(_)
        collect(ns) == IF ns = <<>> THEN <<>>
                       ELSE linesOf(Head(ns)) \o collect(Tail(ns))
        global_statements == collect(body)
    IN IF global_statements = <<>> THEN None
       ELSE Some(_create_chunk(Some(Join(global_statements, "\n")), "global", 1,
                     Len(splitlines(source)), source, None,
                     [num_globals |-> Len(global_statements)]).value)

\* Position of the last occurrence of the character c in s, 0 when absent
\* (str.rfind, counted from 1).
RECURSIVE LastIndexOf(_, _, _)
LastIndexOf(s, c, i) ==
    IF i = 0 THEN 0
    ELSE IF CharAt(s, i) = c THEN i
    ELSE LastIndexOf(s, c, i - 1)

\* PurePath.name: the part after the last "/".
PathName(file_path) ==
    SubSeq(file_path, LastIndexOf(file_path, "/", Len(file_path)) + 1,
           Len(file_path))

\* PurePath.stem: the name without its last suffix; a dot that starts or
\* ends the name opens no suffix.
PathStem(file_path) ==
    LET name == PathName(file_path)
        i == LastIndexOf(name, ".", Len(name))
    IN IF 1 < i /\ i < Len(name) THEN SubSeq(name, 1, i - 1) ELSE name

\* One round of the loop of chunk_code over ast.walk(tree): a class gives its
\* chunks, a FunctionDef that is not nested gives its chunk if it has one, any
\* other node gives nothing.
DefinitionChunks(self, tree, n, source, file_path) ==
    IF Kind(tree, n) = "ClassDef"
    THEN _extract_class(self, tree, n, source, file_path)
    ELSE IF Kind(tree, n) = "FunctionDef" /\ ~_is_nested_function(tree, n)
    THEN Return(OptSeq(_extract_function(tree, n, source, file_path)))
    ELSE Return(<<>>)

\* The loop of chunk_code over ast.walk(tree); an exception leaves the loop.
RECURSIVE ExtractDefinitions(_, _, _, _, _)
ExtractDefinitions(self, tree, nodes, source, file_path) ==
    IF nodes = <<>> THEN Return(<<>>)
    ELSE Then(DefinitionChunks(self, tree, Head(nodes), source, file_path),
              ExtractDefinitions(self, tree, Tail(nodes), source, file_path))

\* DocstringChunks that asks only whether there is a docstring.
DocstringChunks_any(module_docstring, file_path) ==
    IF module_docstring # None
    THEN <<_create_chunk(
               Some("\"\"\"Module Documentation\"\"\"\n" \o module_docstring[1]),
               "module_docstring", 1, _count_lines(module_docstring[1]) + 2,
               file_path, None, [module |-> PathStem(file_path)]).value>>
    ELSE <<>>

\* The module docstring chunk of chunk_code, if the module has a docstring.
DocstringChunks(module_docstring, file_path) ==
    IF Truthy(module_docstring)
    THEN <<_create_chunk(
               Some("\"\"\"Module Documentation\"\"\"\n" \o module_docstring[1]),
               "module_docstring", 1, _count_lines(module_docstring[1]) + 2,
               file_path, None, [module |-> PathStem(file_path)]).value>>
    ELSE <<>>

\* ChunkTree that extracts the globals before the imports.
ChunkTree_globals_first(self, tree, source_code, file_path) ==
    Then(Return(DocstringChunks(get_docstring(tree, 0), file_path)
                \o OptSeq(_extract_globals(tree, source_code))
                \o _extract_imports(tree, source_code)),
         ExtractDefinitions(self, tree, ast_walk(tree, 0), source_code,
                            file_path))

\* chunk_code after a successful parse: the module docstring chunk, the import
\* chunks, the global chunk and the chunks of the classes and functions, in
\* this order.
ChunkTree(self, tree, source_code, file_path) ==
    Then(Return(DocstringChunks(get_docstring(tree, 0), file_path)
                \o _extract_imports(tree, source_code)
                \o OptSeq(_extract_globals(tree, source_code))),
         ExtractDefinitions(self, tree, ast_walk(tree, 0), source_code,
                            file_path))

\* ChunkParsed that adds the line windows to a structural result as well.
ChunkParsed_mixed(self, parsed, source_code, file_path) ==
    IF ~parsed.ok THEN Return(_fallback_chunk(source_code, file_path))
    ELSE Then(ChunkTree(self, parsed.tree, source_code, file_path),
              Return(_fallback_chunk(source_code, file_path)))

\* The try statement of chunk_code: the fallback chunks when the parser
\* raised SyntaxError, the structural chunks otherwise.
ChunkParsed(self, parsed, source_code, file_path) ==
    IF ~parsed.ok THEN Return(_fallback_chunk(source_code, file_path))
    ELSE ChunkTree(self, parsed.tree, source_code, file_path)

\* The chunks with their content cut to `size` characters.
Capped(r, size) ==
    IF r.raised THEN r
    ELSE Return([k \in 1..Len(r.value) |->
                    [r.value[k] EXCEPT !.content = Prefix(@, size)]])

\* chunk_code that cuts every chunk's content to max_chunk_size characters.
chunk_code_capped(self, source_code, file_path) ==
    Capped(ChunkParsed(self, ast_parse(source_code), source_code, file_path),
           self.max_chunk_size)

\* ASTCodeChunker.chunk_code
chunk_code(self, source_code, file_path) ==
    ChunkParsed(self, ast_parse(source_code), source_code, file_path)

\* chunk_file that gives no chunks for a path where nothing exists.
chunk_file_unchecked(self, file_path, file) ==
    IF file = None THEN Return(<<>>)
    ELSE chunk_code(self, file[1], file_path)

\* ASTCodeChunker.chunk_file.  file is what the path holds: None when nothing
\* exists there, else the text read from it.
chunk_file(self, file_path, file) ==
    IF file = None THEN Raise("FileNotFoundError")
    ELSE chunk_code(self, file[1], file_path)

(***************************************************************************)
(* MultiLanguageASTChunker                                                 *)
(***************************************************************************)

\* MultiLanguageASTChunker.__init__: a chunker with the default settings,
\* registered under two extensions.
python_chunker == [max_chunk_size |-> 1500, include_context |-> TRUE]

language_parsers == {"python", "py"}

\* PurePath.suffix: the name from its last dot on; a dot that starts or ends
\* the name opens no suffix.
PathSuffix(file_path) ==
    LET name == PathName(file_path)
        i == LastIndexOf(name, ".", Len(name))
    IN IF 1 < i /\ i < Len(name) THEN SubSeq(name, i, Len(name)) ELSE ""

\* s.lstrip('.')
RECURSIVE LStripDots(_)
LStripDots(s) ==
    IF s # "" /\ CharAt(s, 1) = "." THEN LStripDots(SubSeq(s, 2, Len(s))) ELSE s

\* The character classes of func_pattern: \s and \w.
Whitespace == {" ", "\t", "\n", "\r", "\f"}

WordChars ==
    {"a", "b", "c", "d", "e", "f", "g", "h", "i", "j", "k", "l", "m", "n", "o",
     "p", "q", "r", "s", "t", "u", "v", "w", "x", "y", "z",
     "A", "B", "C", "D", "E", "F", "G", "H", "I", "J", "K", "L", "M", "N", "O",
     "P", "Q", "R", "S", "T", "U", "V", "W", "X", "Y", "Z",
     "0", "1", "2", "3", "4", "5", "6", "7", "8", "9", "_"}

\* The alternatives that open func_pattern, in the order the pattern tries
\* them.
Keywords == <<"public", "private", "protected", "static", "async", "def",
              "function", "func">>

\* First position from p on whose character is outside the class (the
\* position after the text when there is none): where a greedy run ends.
RunEnd(s, p, class) ==
    CHOOSE i \in p..(Len(s) + 1) :
        /\ i = Len(s) + 1 \/ CharAt(s, i) \notin class
        /\ \A j \in p..(i - 1) : CharAt(s, j) \in class

\* First position from p on that holds the character c, 0 when there is none.
FirstIndexOf(s, c, p) ==
    IF \E i \in p..Len(s) : CharAt(s, i) = c
    THEN CHOOSE i \in p..Len(s) :
             CharAt(s, i) = c /\ \A j \in p..(i - 1) : CharAt(s, j) # c
    ELSE 0

\* The part of func_pattern after the keyword, tried at position q:
\*   \s+ [\w<>]+ \s+ \w+ \s* \( [^)]* \) \s* { [^}]* }
\* The position of the closing brace, 0 when the text does not match.  No
\* run can give back a character to let the rest match, so the greedy run
\* ends decide.
MatchTail(s, q) ==
    LET q1 == RunEnd(s, q, Whitespace)
        q2 == RunEnd(s, q1, WordChars \cup {"<", ">"})
        q3 == RunEnd(s, q2, Whitespace)
        q4 == RunEnd(s, q3, WordChars)
        q5 == RunEnd(s, q4, Whitespace)
        q6 == FirstIndexOf(s, ")", q5 + 1)
        q7 == RunEnd(s, q6 + 1, Whitespace)
        q8 == FirstIndexOf(s, "}", q7 + 1)
    IN IF /\ q1 > q /\ q2 > q1 /\ q3 > q2 /\ q4 > q3
          /\ q5 <= Len(s) /\ CharAt(s, q5) = "("
          /\ q6 > 0
          /\ q7 <= Len(s) /\ CharAt(s, q7) = "{"
          /\ q8 > 0
       THEN q8
       ELSE 0

\* func_pattern tried at position p: the position where the match ends, 0
\* when there is no match.
MatchAt(s, p) ==
    LET ends == [k \in 1..Len(Keywords) |->
                    IF p + Len(Keywords[k]) - 1 <= Len(s)
                       /\ SubSeq(s, p, p + Len(Keywords[k]) - 1) = Keywords[k]
                    THEN MatchTail(s, p + Len(Keywords[k]))
                    ELSE 0]
        hits == SelectSeq(ends, LAMBDA e : e > 0)
    IN IF hits = <<>> THEN 0 ELSE hits[1]

\* For every position of the text, where a match of func_pattern that starts
\* there ends (0: none starts there).
MatchEnds(s) == [p \in 1..Len(s) |-> MatchAt(s, p)]

\* The matches from position p on, from left to right, each search starting
\* after the previous match.
RECURSIVE TakeMatches(_, _, _)
TakeMatches(s, ends, p) ==
    LET hits == {i \in p..Len(s) : ends[i] > 0}
        i == CHOOSE i \in hits : \A j \in hits : i <= j
    IN IF hits = {} THEN <<>>
       ELSE <<SubSeq(s, i, ends[i])>> \o TakeMatches(s, ends, ends[i] + 1)

\* re.findall(func_pattern, content, re.DOTALL)
FindAll(s) == TakeMatches(s, MatchEnds(s), 1)

\* The CodeChunk built directly by _generic_chunk: language and
\* parent_context take the defaults of the dataclass.
CodeChunk(id, content, chunk_type, metadata, start_line, end_line, file_path) ==
    [id |-> id, content |-> content, chunk_type |-> chunk_type,
     metadata |-> metadata, start_line |-> start_line, end_line |-> end_line,
     file_path |-> file_path, language |-> "python", parent_context |-> None]

\* The chunks of _generic_chunk for the matches of func_pattern.
FunctionChunks(file_path, functions, language) ==
    [k \in 1..Len(functions) |->
        CodeChunk(md5_12(file_path \o ":func_" \o ToString(k - 1)),
                  functions[k], "function", [language |-> language],
                  0, 0, file_path)]

\* The chunks of _generic_chunk for windows of chunk_size lines.
LineChunks(file_path, lines, starts, language) ==
    [k \in 1..Len(starts) |->
        CodeChunk(md5_12(file_path \o ":lines_" \o ToString(starts[k])),
                  Join(Slice(lines, starts[k], starts[k] + chunk_size), "\n"),
                  "code_block", [language |-> language],
                  starts[k] + 1, Min(starts[k] + chunk_size, Len(lines)),
                  file_path)]

\* IfNone that adds the line windows to the function chunks.
IfNone_both(chunks, line_chunks) == chunks \o line_chunks

\* `if not chunks:` of _generic_chunk: the line windows only when there is no
\* function chunk.
IfNone(chunks, line_chunks) == IF chunks # <<>> THEN chunks ELSE line_chunks

\* MultiLanguageASTChunker._generic_chunk: one chunk per match of
\* func_pattern; when nothing matches, windows of chunk_size lines.
_generic_chunk(file_path, file) ==
    IF file = None THEN Raise("FileNotFoundError")
    ELSE Return(IfNone(
             FunctionChunks(file_path, FindAll(file[1]),
                            LStripDots(PathSuffix(file_path))),
             LineChunks(file_path, splitlines(file[1]),
                        Range0(0, Len(splitlines(file[1])), chunk_size),
                        LStripDots(PathSuffix(file_path)))))

\* ml_chunk_file that knows the extension 'py' only.
ml_chunk_file_py_only(file_path, file) ==
    LET extension == LStripDots(PathSuffix(file_path))
    IN IF extension = "py"
       THEN chunk_file(python_chunker, file_path, file)
       ELSE _generic_chunk(file_path, file)

\* MultiLanguageASTChunker.chunk_file: by the extension of the path, the
\* registered chunker's chunk_file or the generic chunking.
ml_chunk_file(file_path, file) ==
    LET extension == LStripDots(PathSuffix(file_path))
    IN IF extension \in language_parsers
       THEN chunk_file(python_chunker, file_path, file)
       ELSE _generic_chunk(file_path, file)

(***************************************************************************)
(* VerbaCodeRAG                                                            *)
(***************************************************************************)

\* What the two services do for one chunk: the embedding model answers and
\* the store takes the object; the embedding model raises or answers with
\* nothing; the store raises.
ServiceOutcomes == {"stored", "no_embedding", "store_error"}

\* VerbaCodeRAG.generate_embedding: the vector of the response, the empty
\* list when the client raises.  The vector is kept as the text it embeds.
generate_embedding(text, outcome) ==
    IF outcome = "no_embedding" THEN <<>> ELSE <<[embedding_of |-> text]>>

\* The data_object of index_file.  json.dumps(metadata) is kept as the
\* metadata it was made from; the time stamp is left out.
data_object(chunk, embedding) ==
    [content |-> chunk.content,
     chunk_type |-> chunk.chunk_type,
     file_path |-> chunk.file_path,
     language |-> chunk.language,
     start_line |-> chunk.start_line,
     end_line |-> chunk.end_line,
     parent_context |-> IF Truthy(chunk.parent_context)
                        THEN chunk.parent_context[1] ELSE "",
     metadata |-> [json |-> chunk.metadata],
     embedding |-> embedding]

\* An entry of an error list: the text before the chunk id, the id, the text
\* after it.
ErrorString(before, id, after) == [before |-> before, id |-> id, after |-> after]

\* The body of the loop over the chunks in index_file, for one chunk.
IndexChunk(acc, chunk, embedding, outcome) ==
    IF embedding = <<>>
    THEN [acc EXCEPT !.errors = Append(@,
             ErrorString("Failed to generate embedding for chunk ",
                         Some(chunk.id), ""))]
    ELSE IF outcome = "store_error"
    THEN [acc EXCEPT !.errors = Append(@,
             ErrorString("Failed to index chunk ", Some(chunk.id),
                         ": store_error"))]
    ELSE [acc EXCEPT !.indexed_count = @ + 1,
                     !.written = Append(@, data_object(chunk, embedding))]

\* IndexChunks that leaves the loop at the first chunk that fails.
RECURSIVE IndexChunks_break(_, _, _, _)
IndexChunks_break(chunks, outcomes, k, acc) ==
    IF k > Len(chunks) \/ acc.errors # <<>> THEN acc
    ELSE IndexChunks_break(chunks, outcomes, k + 1,
             IndexChunk(acc, chunks[k],
                        generate_embedding(chunks[k].content, outcomes[k]),
                        outcomes[k]))

\* `for chunk in chunks:` of index_file, from chunk k on: the count of the
\* stored chunks, the errors, and the objects written to the store.
RECURSIVE IndexChunks(_, _, _, _)
IndexChunks(chunks, outcomes, k, acc) ==
    IF k > Len(chunks) THEN acc
    ELSE IndexChunks(chunks, outcomes, k + 1,
             IndexChunk(acc, chunks[k],
                        generate_embedding(chunks[k].content, outcomes[k]),
                        outcomes[k]))

\* The dictionary index_file returns after the loop, with what was written.
FileResult(file_path, total, done) ==
    [result |-> [file_path |-> file_path,
                 total_chunks |-> total,
                 indexed_chunks |-> done.indexed_count,
                 errors |-> done.errors,
                 success |-> Len(done.errors) = 0],
     written |-> done.written]

\* VerbaCodeRAG.index_file, given what self.chunker.chunk_file(file_path)
\* gave and what the services do for each chunk.  An exception of the
\* chunking becomes the only error of the result.
index_file(file_path, chunked, outcomes) ==
    IF chunked.raised
    THEN [result |-> [file_path |-> file_path,
                      total_chunks |-> 0,
                      indexed_chunks |-> 0,
                      errors |-> <<ErrorString(chunked.exc, None, "")>>,
                      success |-> FALSE],
          written |-> <<>>]
    ELSE FileResult(file_path, Len(chunked.value),
                    IndexChunks(chunked.value, outcomes, 1,
                                [indexed_count |-> 0, errors |-> <<>>,
                                 written |-> <<>>]))

\* The default of the parameter extensions of index_directory.
DefaultExtensions == <<".py", ".js", ".ts", ".java", ".cpp", ".c", ".go", ".rs">>

\* directory.rglob("*" + ext): the entries of the directory, in the order
\* the file system lists them, whose name ends with ext.
rglob(entries, ext) == SelectSeq(entries, LAMBDA e : EndsWith(e.path, ext))

\* The list code_files of index_directory: the matches of each extension in
\* turn, one after the other.
RECURSIVE code_files(_, _)
code_files(entries, extensions) ==
    IF extensions = <<>> THEN <<>>
    ELSE rglob(entries, Head(extensions)) \o code_files(entries, Tail(extensions))

\* The dictionary results of index_directory before the loop over the files.
NewResults(directory_path, files) ==
    [directory |-> directory_path,
     files_processed |-> <<>>,
     total_files |-> Len(files),
     total_chunks |-> 0,
     errors |-> <<>>]

\* The body of the loop over the files in index_directory.
AddResult(results, r) ==
    [results EXCEPT !.files_processed = Append(@, r),
                    !.total_chunks = @ + r.indexed_chunks,
                    !.errors = @ \o r.errors]

(***************************************************************************)
(* The state: the chunker instance, the call in hand and what it gave; the *)
(* index_directory call in hand and the store; the threads that share the  *)
(* chunker instance.                                                       *)
(***************************************************************************)

VARIABLES
    chunker,    \* the ASTCodeChunker: max_chunk_size, include_context
    call,       \* the arguments of the last call, NoCall before the first
    result,     \* its outcome: Return(chunks) or Raise(exception)
    rag,        \* the index_directory call of the VerbaCodeRAG instance
    store,      \* the objects written to the collection, in order
    threads     \* the chunk_code call of each thread on the shared chunker

vars == <<chunker, call, result, rag, store, threads>>

NoCall == [op |-> "none"]

\* The values given to the constructor.
ChunkSizes == {1500}

FilePaths == {"a.py", "src/mod.py"}

\* The paths given to MultiLanguageASTChunker.chunk_file.
OtherPaths == {"a.py", "m.python", "U.PY", "lib.js", "Makefile"}

\* The paths given to ASTCodeChunker.chunk_file.
ReadPaths == {"src/mod.py"}

\* What the paths given to chunk_file hold: nothing, a text of another
\* language, one of the further Python texts, unparsable lines, or a
\* program of at most one statement.
OtherFiles ==
    {None}
    \cup {Some(x.source) : x \in OtherInputs \cup Examples}
    \cup {Some(Repeat("(\n", n)) : n \in 1..MaxBadLines}
    \cup {Some(Render(p)) : p \in SeqsUpTo(DOMAIN Catalogue, 1)}

\* No index_directory call in hand.
RagIdle ==
    [pc |-> "idle", directory |-> "", files |-> <<>>, results |-> None,
     log |-> <<>>]

Threads == {1, 2}

\* A thread outside chunk_code.
ThreadIdle ==
    [pc |-> "idle", source_code |-> "", file_path |-> "", self |-> None,
     nodes |-> <<>>, chunks |-> <<>>, result |-> NoCall]

\* ASTCodeChunker.__init__
Init ==
    /\ chunker \in [max_chunk_size : ChunkSizes, include_context : BOOLEAN]
    /\ call = NoCall
    /\ result = NoCall
    /\ rag = RagIdle
    /\ store = <<>>
    /\ threads = [t \in Threads |-> ThreadIdle]

\* A call of chunker.chunk_code(source_code, file_path).
ChunkCode ==
    /\ call = NoCall
    /\ \E source_code \in Sources, file_path \in FilePaths :
          /\ call' = [op |-> "chunk_code", source_code |-> source_code,
                      file_path |-> file_path]
          /\ result' = chunk_code(chunker, source_code, file_path)
    /\ UNCHANGED <<chunker, rag, store, threads>>

\* A call of chunker.chunk_file(file_path) with the file system holding `file`
\* at the path.
ChunkFile ==
    /\ call = NoCall
    /\ \E file_path \in ReadPaths, file \in OtherFiles :
          /\ call' = [op |-> "chunk_file", file_path |-> file_path, file |-> file]
          /\ result' = chunk_file(chunker, file_path, file)
    /\ UNCHANGED <<chunker, rag, store, threads>>

\* A call of MultiLanguageASTChunker().chunk_file(file_path).
MultiChunkFile ==
    /\ call = NoCall
    /\ \E file_path \in OtherPaths, file \in OtherFiles :
          /\ call' = [op |-> "multi_chunk_file", file_path |-> file_path,
                      file |-> file]
          /\ result' = ml_chunk_file(file_path, file)
    /\ UNCHANGED <<chunker, rag, store, threads>>

\* The caller lets go of the chunks; they do not outlive the call.
Discard ==
    /\ call # NoCall
    /\ call' = NoCall
    /\ result' = NoCall
    /\ UNCHANGED <<chunker, rag, store, threads>>

Next == ChunkCode \/ ChunkFile \/ MultiChunkFile \/ Discard

Spec == Init /\ [][Next]_vars

(***************************************************************************)
(* index_directory: one step for the statements before the loop, one for   *)
(* each file of the loop, one for the return.                              *)
(***************************************************************************)

\* The directory given to index_directory.
DirectoryPath == "repo"

\* Most entries of a directory.
MaxFiles == 2

\* What the directory can hold under its two names: Python texts that give
\* two chunks, a class on one line, a name that leads nowhere; texts of
\* another language.
Entries ==
    {[path |-> "repo/a.py", file |-> f] :
        f \in {Some("import os\nimport sys\n\ndef f():\n    pass\n"),
               Some(Render(<<"cls">>)), Some(Render(<<"one">>)), None}}
    \cup {[path |-> "repo/x.d.ts", file |-> f] :
        f \in {Some("function foo() {}\n"),
               Some("public int f() {}\npublic int f() {}\n")}}

\* The directories: none at the path, or up to MaxFiles entries under
\* different names, in the order the file system lists them.
Directories ==
    {None} \cup
    {Some(d) : d \in {e \in SeqsUpTo(Entries, MaxFiles) :
                         \A i, j \in 1..Len(e) : e[i].path = e[j].path => i = j}}

\* The values given for the parameter extensions.
ExtensionLists == {None, Some(<<".py">>), Some(<<".ts", ".d.ts">>)}

\* `if extensions is None:` of index_directory
Extensions(extensions) ==
    IF extensions = None THEN DefaultExtensions ELSE extensions[1]

\* VerbaCodeRAG.__init__ with an empty collection.
IndexInit ==
    /\ chunker = python_chunker
    /\ call = NoCall
    /\ result = NoCall
    /\ rag = RagIdle
    /\ store = <<>>
    /\ threads = [t \in Threads |-> ThreadIdle]

\* index_directory up to the loop: ValueError when the directory does not
\* exist, else the list of the files and the empty results.
IndexDirectory ==
    /\ rag.pc = "idle"
    /\ \E directory \in Directories, extensions \in ExtensionLists :
          rag' = IF directory = None
                 THEN [RagIdle EXCEPT !.pc = "raised",
                                      !.directory = DirectoryPath]
                 ELSE [pc |-> "loop", directory |-> DirectoryPath,
                       files |-> code_files(directory[1], Extensions(extensions)),
                       results |-> Some(NewResults(DirectoryPath,
                                     code_files(directory[1], Extensions(extensions)))),
                       log |-> <<>>]
    /\ UNCHANGED <<chunker, call, result, store, threads>>

\* What one round of the loop leaves: the results with the file's result
\* added, the objects in the store, and what happened to the file.
AfterFile(chunked, outcomes, r) ==
    /\ rag' = [rag EXCEPT !.results = Some(AddResult(@[1], r.result)),
                          !.log = Append(@, [chunked |-> chunked,
                                             outcomes |-> outcomes,
                                             written |-> r.written])]
    /\ store' = store \o r.written

\* index_file for the file at hand, with the services doing for each chunk
\* one of the things they can do.
IndexOne(file_path, chunked) ==
    \E outcomes \in [1..(IF chunked.raised THEN 0 ELSE Len(chunked.value))
                        -> ServiceOutcomes] :
        AfterFile(chunked, outcomes, index_file(file_path, chunked, outcomes))

\* One round of `for file_path in code_files:`.
IndexNextFile ==
    /\ rag.pc = "loop"
    /\ Len(rag.log) < Len(rag.files)
    /\ IndexOne(rag.files[Len(rag.log) + 1].path,
                ml_chunk_file(rag.files[Len(rag.log) + 1].path,
                              rag.files[Len(rag.log) + 1].file))
    /\ UNCHANGED <<chunker, call, result, threads>>

\* `return results` of index_directory.
IndexReturn ==
    /\ rag.pc = "loop"
    /\ Len(rag.log) = Len(rag.files)
    /\ rag' = [rag EXCEPT !.pc = "done"]
    /\ UNCHANGED <<chunker, call, result, store, threads>>

\* The instance and its collection are dropped.
IndexDiscard ==
    /\ rag.pc \in {"done", "raised"}
    /\ rag' = RagIdle
    /\ store' = <<>>
    /\ UNCHANGED <<chunker, call, result, threads>>

IndexNext == IndexDirectory \/ IndexNextFile \/ IndexReturn \/ IndexDiscard

IndexSpec == IndexInit /\ [][IndexNext]_vars

(***************************************************************************)
(* Threads that call chunk_code on one shared chunker: one step for the    *)
(* call, one for the parse and the chunks of the module level, one for     *)
(* each node of the walk, one for the return.                              *)
(***************************************************************************)

\* The sources the threads chunk: a class with a private method, a module
\* with a docstring, an import, a global and a class, a class on one line,
\* a text that does not parse.
ThreadSources ==
    {Render(<<"clsdoc">>), Render(<<"head", "cls">>), Render(<<"one">>),
     Render(<<"bad">>)}

\* The instance after a statement of chunk_code that sets include_context.
InstanceWrites_flag(self) == [self EXCEPT !.include_context = FALSE]

\* The instance after a statement of chunk_code or of the methods it calls:
\* none of them assigns to an attribute of self, and they keep what they
\* build in local variables.
InstanceWrites(self) == self

\* The chunks chunk_code has before the walk: the module docstring chunk, the
\* import chunks and the global chunk.
ModuleChunks(tree, source_code, file_path) ==
    DocstringChunks(get_docstring(tree, 0), file_path)
    \o _extract_imports(tree, source_code)
    \o OptSeq(_extract_globals(tree, source_code))

\* The shared chunker and two threads outside chunk_code.
ThreadInit ==
    /\ chunker \in [max_chunk_size : ChunkSizes, include_context : BOOLEAN]
    /\ call = NoCall
    /\ result = NoCall
    /\ rag = RagIdle
    /\ store = <<>>
    /\ threads = [t \in Threads |-> ThreadIdle]

\* Thread t calls chunker.chunk_code(source_code, 'a.py').
Begin(t) ==
    /\ threads[t].pc = "idle"
    /\ \E source_code \in ThreadSources :
          threads' = [threads EXCEPT ![t] =
                         [ThreadIdle EXCEPT !.pc = "parse",
                                            !.source_code = source_code,
                                            !.file_path = "a.py",
                                            !.self = Some(chunker)]]
    /\ chunker' = InstanceWrites(chunker)
    /\ UNCHANGED <<call, result, rag, store>>

\* What thread t has after the parse: the fallback chunks as its result, or
\* the chunks of the module level and the nodes to walk.
AfterParse(th, parsed) ==
    IF ~parsed.ok
    THEN [th EXCEPT !.pc = "done",
                    !.result = Return(_fallback_chunk(th.source_code,
                                                      th.file_path))]
    ELSE [th EXCEPT !.pc = "walk",
                    !.chunks = ModuleChunks(parsed.tree, th.source_code,
                                            th.file_path),
                    !.nodes = ast_walk(parsed.tree, 0)]

\* Thread t parses its source and builds the chunks of the module level.
ParseStep(t) ==
    /\ threads[t].pc = "parse"
    /\ threads' = [threads EXCEPT ![t] =
                      AfterParse(@, ast_parse(threads[t].source_code))]
    /\ chunker' = InstanceWrites(chunker)
    /\ UNCHANGED <<call, result, rag, store>>

\* What thread t has after one node of the walk: the exception as its
\* result, or the chunks of the node added to its list.
AfterNode(th, extracted) ==
    IF extracted.raised
    THEN [th EXCEPT !.pc = "done", !.result = extracted]
    ELSE [th EXCEPT !.chunks = @ \o extracted.value, !.nodes = Tail(@)]

\* Thread t handles the next node of `for node in ast.walk(tree):`, reading
\* the shared chunker as it is now.
WalkStep(t) ==
    /\ threads[t].pc = "walk"
    /\ threads[t].nodes # <<>>
    /\ threads' = [threads EXCEPT ![t] =
                      AfterNode(@, DefinitionChunks(chunker,
                                      ast_parse(threads[t].source_code).tree,
                                      Head(threads[t].nodes),
                                      threads[t].source_code,
                                      threads[t].file_path))]
    /\ chunker' = InstanceWrites(chunker)
    /\ UNCHANGED <<call, result, rag, store>>

\* `return chunks` in thread t.
ReturnStep(t) ==
    /\ threads[t].pc = "walk"
    /\ threads[t].nodes = <<>>
    /\ threads' = [threads EXCEPT ![t] =
                      [@ EXCEPT !.pc = "done",
                                !.result = Return(threads[t].chunks)]]
    /\ chunker' = InstanceWrites(chunker)
    /\ UNCHANGED <<call, result, rag, store>>

\* Thread t lets go of its result.
Collect(t) ==
    /\ threads[t].pc = "done"
    /\ threads' = [threads EXCEPT ![t] = ThreadIdle]
    /\ UNCHANGED <<chunker, call, result, rag, store>>

ThreadNext ==
    \E t \in Threads :
        Begin(t) \/ ParseStep(t) \/ WalkStep(t) \/ ReturnStep(t) \/ Collect(t)

ThreadSpec == ThreadInit /\ [][ThreadNext]_vars

(***************************************************************************)
(* Properties.                                                             *)
(***************************************************************************)

\* The call in hand runs chunk_code of the chunker instance: directly, or
\* through chunk_file on a file that exists.
IsChunkCode ==
    /\ call # NoCall
    /\ \/ call.op = "chunk_code"
       \/ call.op = "chunk_file" /\ call.file # None

\* The text that call chunks.
SourceOf == IF call.op = "chunk_code" THEN call.source_code ELSE call.file[1]

\* The parser accepts that text.
Parsed == ast_parse(SourceOf).ok

Returned == result # NoCall /\ ~result.raised

Chunks == result.value

\* A structural result: chunk_code parsed the text and returned.
Structural == IsChunkCode /\ Parsed /\ Returned

\* C1: for every source text that parses, chunk_code returns a chunk list and
\* never raises, also for a class whose body starts on the line of its header
\* (empty header slice), with or without a docstring.
C1_NeverRaises == (IsChunkCode /\ Parsed) => Returned

\* C2: when parsing fails, a source of n lines gives exactly ceil(n / 50)
\* chunks; chunk k (from 0) is a 'code_block' with metadata fallback = true,
\* start_line = 50k + 1, end_line = min(50k + 50, n), and its content is those
\* lines joined by line ends, so the ranges cover 1..n without gap or overlap.
C2_FallbackWindows ==
    (IsChunkCode /\ ~Parsed) =>
        /\ Returned
        /\ LET lines == splitlines(SourceOf)
               n == Len(lines)
           IN /\ Len(Chunks) = (n + 49) \div 50
              /\ \A k \in 0..(Len(Chunks) - 1) :
                    LET c == Chunks[k + 1]
                    IN /\ c.chunk_type = "code_block"
                       /\ "fallback" \in DOMAIN c.metadata
                       /\ c.metadata.fallback = TRUE
                       /\ c.start_line = 50 * k + 1
                       /\ c.end_line = Min(50 * k + 50, n)
                       /\ c.content = Join(SubSeq(lines, c.start_line, c.end_line),
                                           "\n")

\* A fallback result of three windows, the last one shorter than 50 lines.
C2_Witness ==
    /\ IsChunkCode /\ ~Parsed /\ Returned
    /\ Len(Chunks) = 3
    /\ Chunks[3].end_line - Chunks[3].start_line < 49

\* C3: the choice between structural and fallback chunking is made once per
\* call: when parsing fails every chunk is a 'code_block' fallback chunk, when
\* it succeeds no chunk is a 'code_block' or carries a fallback flag.
C3_AllOrNothing ==
    (IsChunkCode /\ Returned) =>
        IF Parsed
        THEN \A i \in 1..Len(Chunks) :
                /\ Chunks[i].chunk_type # "code_block"
                /\ "fallback" \notin DOMAIN Chunks[i].metadata
        ELSE \A i \in 1..Len(Chunks) :
                /\ Chunks[i].chunk_type = "code_block"
                /\ "fallback" \in DOMAIN Chunks[i].metadata
                /\ Chunks[i].metadata.fallback

\* A text that starts with a well-formed class and ends in an unparsable
\* line: the result holds fallback chunks only.
C3_Witness ==
    /\ IsChunkCode /\ Returned
    /\ SourceOf = Render(<<"cls", "bad">>)
    /\ Len(Chunks) = 1
    /\ Chunks[1].chunk_type = "code_block"

\* The tree of the text that call chunks.
Tree == ast_parse(SourceOf).tree

\* C5: for every chunk of every strategy the id is a function of the chunk's
\* file path, its start_line and the first 100 characters of its content: two
\* chunks of a result that agree on the three have the same id.
C5_IdFromPathLinePrefix ==
    (call # NoCall /\ Returned) =>
        \A i, j \in 1..Len(Chunks) :
            (/\ Chunks[i].file_path = Chunks[j].file_path
             /\ Chunks[i].start_line = Chunks[j].start_line
             /\ Prefix(Chunks[i].content, 100) = Prefix(Chunks[j].content, 100))
            => Chunks[i].id = Chunks[j].id

\* C6: every chunk returned by chunk_code(source, file_path) has its
\* file_path field equal to the file_path argument of the call.
C6_FilePathKept ==
    (IsChunkCode /\ Returned) =>
        \A i \in 1..Len(Chunks) : Chunks[i].file_path = call.file_path

\* The dedented text of the source lines start_line..end_line of a chunk.
SourceSpan(c) ==
    dedent(Join(Slice(splitlines(SourceOf), c.start_line - 1, c.end_line), "\n"))

\* C7 as stated: the content of every non-fallback chunk of chunk_code equals
\* the dedented text of the source lines start_line..end_line.
C7_RoundTrip ==
    Structural =>
        \A i \in 1..Len(Chunks) : Chunks[i].content = SourceSpan(Chunks[i])

\* The line that include_context puts in front of a method's source.
ContextLine(c) ==
    IF chunker.include_context
    THEN "# In class: " \o c.parent_context[1] \o "\n"
    ELSE ""

\* C7 amended: the content of a function chunk equals the dedented text of
\* the source lines start_line..end_line; the content of a method chunk is
\* that text, after the line '# In class: <class>' when include_context is
\* on.  (The other chunk types hold rendered text.)
C7_RoundTripOfDefinitions ==
    Structural =>
        \A i \in 1..Len(Chunks) :
            /\ Chunks[i].chunk_type = "function" =>
                   Chunks[i].content = SourceSpan(Chunks[i])
            /\ Chunks[i].chunk_type = "method" =>
                   Chunks[i].content = ContextLine(Chunks[i]) \o SourceSpan(Chunks[i])

\* A method chunk under include_context whose source lines are indented: the
\* content is the context line and then the lines without the indentation.
C7_Witness ==
    /\ Structural
    /\ chunker.include_context
    /\ \E i \in 1..Len(Chunks) :
          /\ Chunks[i].chunk_type = "method"
          /\ StartsWith(splitlines(SourceOf)[Chunks[i].start_line], "    def ")
          /\ StartsWith(Chunks[i].content, "# In class: A\ndef ")

OfTypes(chunks, types) == SelectSeq(chunks, LAMBDA c : c.chunk_type \in types)

Ascending(chunks) ==
    \A i, j \in 1..Len(chunks) :
        i < j => chunks[i].start_line < chunks[j].start_line

\* The statement lies in the body of a class or function, at any depth.
RECURSIVE InsideDefinition(_, _)
InsideDefinition(tree, n) ==
    /\ tree[n].parent # 0
    /\ \/ tree[tree[n].parent].kind \in {"ClassDef", "FunctionDef"}
       \/ InsideDefinition(tree, tree[n].parent)

\* Every class, and every function that is not inside a class or function,
\* is a statement of the module body.
TopLevelOnly(tree) ==
    \A n \in 1..Len(tree) :
        (\/ tree[n].kind = "ClassDef"
         \/ tree[n].kind = "FunctionDef" /\ ~InsideDefinition(tree, n))
        => tree[n].parent = 0

Phase(c) ==
    CASE c.chunk_type = "module_docstring" -> 0
      [] c.chunk_type = "import" -> 1
      [] c.chunk_type = "global" -> 2
      [] OTHER -> 3

\* What identifies the chunk of a definition: type, name, line and class.
Shape(c) ==
    [type |-> c.chunk_type,
     name |-> IF c.chunk_type = "class" THEN c.metadata.class_name
              ELSE IF c.chunk_type = "method" THEN c.metadata.method_name
              ELSE c.metadata.function_name,
     line |-> c.start_line,
     parent |-> c.parent_context]

\* The definitions of the tree in breadth-first order, each class followed by
\* its direct methods in body order; of the functions, those outside every
\* class and function.
RECURSIVE WalkOrder(_, _)
WalkOrder(tree, nodes) ==
    IF nodes = <<>> THEN <<>>
    ELSE LET n == Head(nodes)
             methods == FunctionDefs(tree, Children(tree, n))
         IN (IF Kind(tree, n) = "ClassDef"
             THEN <<[type |-> "class", name |-> tree[n].name,
                     line |-> tree[n].lineno, parent |-> None]>>
                  \o [k \in 1..Len(methods) |->
                         [type |-> "method", name |-> tree[methods[k]].name,
                          line |-> tree[methods[k]].lineno,
                          parent |-> Some(tree[n].name)]]
             ELSE IF Kind(tree, n) = "FunctionDef" /\ ~InsideDefinition(tree, n)
             THEN <<[type |-> "function", name |-> tree[n].name,
                     line |-> tree[n].lineno, parent |-> None]>>
             ELSE <<>>)
            \o WalkOrder(tree, Tail(nodes))

\* C9: in every structural result the module_docstring chunk (if any) is
\* first, then the import chunks in ascending start_line, then the global
\* chunk (if any), then the class, method and function chunks in breadth-first
\* order of the tree, each class chunk immediately followed by the chunks of
\* its direct methods in body order.  (Which methods have a chunk is not
\* part of the order: the definitions in walk order, without the methods
\* that have no chunk, are the chunks.)
C9_Phases ==
    Structural =>
        /\ \A i, j \in 1..Len(Chunks) :
               i < j => Phase(Chunks[i]) <= Phase(Chunks[j])
        /\ Len(OfTypes(Chunks, {"module_docstring"})) <= 1
        /\ Len(OfTypes(Chunks, {"global"})) <= 1
        /\ Ascending(OfTypes(Chunks, {"import"}))
        /\ LET defs == OfTypes(Chunks, {"class", "method", "function"})
               shapes == [k \in 1..Len(defs) |-> Shape(defs[k])]
           IN shapes = SelectSeq(WalkOrder(Tree, ast_walk(Tree, 0)),
                                 LAMBDA d : d.type = "method" => InSeq(d, shapes))

\* A result with all four phases: docstring, import, global, then a class and
\* its method.
C9_Witness ==
    /\ Structural
    /\ Len(Chunks) >= 5
    /\ Chunks[1].chunk_type = "module_docstring"
    /\ Chunks[2].chunk_type = "import"
    /\ Chunks[3].chunk_type = "global"
    /\ Chunks[4].chunk_type = "class"
    /\ Chunks[5].chunk_type = "method"
    /\ Chunks[5].parent_context = Some(Chunks[4].metadata.class_name)

\* C10: in every result of chunk_code each method chunk's parent_context is
\* the class_name of exactly one class chunk of the result, and every chunk
\* that is not a method chunk has no parent_context.
C10_OneParentClass ==
    (IsChunkCode /\ Returned) =>
        \A i \in 1..Len(Chunks) :
            IF Chunks[i].chunk_type = "method"
            THEN /\ Chunks[i].parent_context # None
                 /\ Cardinality({k \in 1..Len(Chunks) :
                        /\ Chunks[k].chunk_type = "class"
                        /\ Chunks[k].metadata.class_name
                               = Chunks[i].parent_context[1]}) = 1
            ELSE Chunks[i].parent_context = None

\* The statement lies in the body of a statement of one of the kinds, at any
\* depth.
RECURSIVE Enclosed(_, _, _)
Enclosed(tree, n, kinds) ==
    /\ tree[n].parent # 0
    /\ \/ tree[tree[n].parent].kind \in kinds
       \/ Enclosed(tree, tree[n].parent, kinds)

\* The classes of the tree that hold no other class, at any depth.
ClassesWithoutNested(tree) ==
    {n \in 1..Len(tree) :
        /\ tree[n].kind = "ClassDef"
        /\ \A m \in 1..Len(tree) :
              (tree[m].kind = "ClassDef" /\ m # n) => ~InSeq(m, ast_walk(tree, n))}

\* The methods defined directly in the body of a class, in body order.
DirectMethods(tree, n) ==
    SelectSeq(Children(tree, n),
              LAMBDA i : tree[i].kind \in {"FunctionDef", "AsyncFunctionDef"})

\* C11: a class with N direct methods and no nested classes produces exactly
\* one class chunk and exactly N method chunks, one per direct method, each
\* with parent_context and class_name equal to the class name and method_name
\* equal to the method's name.
C11_ClassAndMethods ==
    (IsChunkCode /\ Parsed) =>
        \A n \in ClassesWithoutNested(Tree) :
            /\ Returned
            /\ Cardinality({k \in 1..Len(Chunks) :
                   /\ Chunks[k].chunk_type = "class"
                   /\ Chunks[k].start_line = Tree[n].lineno
                   /\ Chunks[k].metadata.class_name = Tree[n].name}) = 1
            /\ LET methods == DirectMethods(Tree, n)
                   found == SelectSeq(Chunks, LAMBDA c :
                                /\ c.chunk_type = "method"
                                /\ Tree[n].lineno <= c.start_line
                                /\ c.start_line <= Tree[n].end_lineno)
               IN /\ Len(found) = Len(methods)
                  /\ \A k \in 1..Len(found) :
                        /\ found[k].start_line = Tree[methods[k]].lineno
                        /\ found[k].parent_context = Some(Tree[n].name)
                        /\ found[k].metadata.class_name = Tree[n].name
                        /\ found[k].metadata.method_name = Tree[methods[k]].name

\* The function and method chunks of the result that stand for the function
\* definition n.
ChunksOfFunction(n) ==
    {k \in 1..Len(Chunks) :
        /\ Chunks[k].chunk_type \in {"function", "method"}
        /\ Chunks[k].start_line = Tree[n].lineno
        /\ Chunks[k].end_line = Tree[n].end_lineno}

\* C12: for every function definition of a parsed source: enclosed by no
\* class and no function it yields exactly one 'function' chunk spanning its
\* lines; defined inside another function definition of any kind, directly or
\* through blocks, it yields no chunk.
C12_FunctionsAndNested ==
    Structural =>
        \A n \in 1..Len(Tree) :
            Tree[n].kind = "FunctionDef" =>
                IF ~Enclosed(Tree, n, {"ClassDef", "FunctionDef", "AsyncFunctionDef"})
                THEN /\ Cardinality(ChunksOfFunction(n)) = 1
                     /\ \A k \in ChunksOfFunction(n) :
                           /\ Chunks[k].chunk_type = "function"
                           /\ Chunks[k].metadata.function_name = Tree[n].name
                ELSE Enclosed(Tree, n, {"FunctionDef", "AsyncFunctionDef"})
                         => ChunksOfFunction(n) = {}

\* The lines of the import statements of the tree, at any depth.
ImportLines(tree) ==
    {tree[n].lineno : n \in {m \in 1..Len(tree) :
                                tree[m].kind \in {"Import", "ImportFrom"}}}

C14_Example ==
    (IsChunkCode /\ SourceOf = "import os\nimport sys\n\ndef f():\n    pass\n") =>
        /\ Returned
        /\ Len(Chunks) = 2
        /\ Chunks[1].chunk_type = "import"
        /\ Chunks[1].start_line = 1 /\ Chunks[1].end_line = 2
        /\ Chunks[1].metadata.num_imports = 2
        /\ Chunks[2].chunk_type = "function"
        /\ Chunks[2].metadata.function_name = "f"
        /\ Chunks[2].start_line = 4 /\ Chunks[2].end_line = 5
        /\ Chunks[2].metadata.num_args = 0

\* chunk_file has returned the chunks of the five-line example.
C14_Witness ==
    /\ call # NoCall /\ call.op = "chunk_file" /\ call.file # None
    /\ call.file[1] = "import os\nimport sys\n\ndef f():\n    pass\n"
    /\ Returned
    /\ Len(Chunks) = 2

\* C15: every chunk of every strategy has start_line <= end_line whenever
\* both are non-zero.
C15_StartBeforeEnd ==
    (call # NoCall /\ Returned) =>
        \A k \in 1..Len(Chunks) :
            (Chunks[k].start_line # 0 /\ Chunks[k].end_line # 0)
            => Chunks[k].start_line <= Chunks[k].end_line

\* A source whose walk meets the import of line 5 before the import of line
\* 2: the two import chunks come in line order, each on its own line.
C15_Witness ==
    /\ Structural
    /\ SourceOf = Render(<<"inner", "imp">>)
    /\ Len(OfTypes(Chunks, {"import"})) = 2
    /\ Chunks[1].start_line = 2 /\ Chunks[1].end_line = 2
    /\ Chunks[2].start_line = 5 /\ Chunks[2].end_line = 5

\* C16: every chunk returned by chunk_code for a source of n lines has
\* 1 <= start_line and end_line <= n, the module_docstring chunk and the
\* global chunk included.
C16_BoundsInsideSource ==
    (IsChunkCode /\ Returned) =>
        \A k \in 1..Len(Chunks) :
            /\ 1 <= Chunks[k].start_line
            /\ Chunks[k].end_line <= Len(splitlines(SourceOf))

\* The paths whose suffix, without the dot, is 'py' or 'python'.
PythonPaths == {"a.py", "src/mod.py", "m.python"}

IsChunkFile == call # NoCall /\ call.op \in {"chunk_file", "multi_chunk_file"}

\* The call goes to the structural chunker's chunk_file.
ToStructural ==
    call.op = "chunk_file"
    \/ (call.op = "multi_chunk_file" /\ call.file_path \in PythonPaths)

\* C17: chunk_file on a path where nothing exists fails with a not-found
\* error and returns no chunks, for ASTCodeChunker.chunk_file and for
\* MultiLanguageASTChunker.chunk_file with any extension; a text the parser
\* rejects gives fallback chunks and no error.
C17_NotFound ==
    IsChunkFile =>
        IF call.file = None
        THEN result = Raise("FileNotFoundError")
        ELSE (ToStructural /\ ~ast_parse(call.file[1]).ok) =>
                 /\ Returned
                 /\ Chunks # <<>>
                 /\ \A k \in 1..Len(Chunks) : Chunks[k].chunk_type = "code_block"

\* The dispatcher was given a path with an unknown extension where nothing
\* exists, and raised.
C17_Witness ==
    /\ IsChunkFile
    /\ call.op = "multi_chunk_file" /\ call.file_path = "lib.js"
    /\ call.file = None
    /\ result.raised /\ result.exc = "FileNotFoundError"

\* The statements of the module body that assign to a plain name: an Assign
\* with such a target, an AnnAssign whose target is one.
GlobalStatements(tree) ==
    SelectSeq(Children(tree, 0), LAMBDA n :
        \/ tree[n].kind = "Assign" /\ InSeq("Name", tree[n].targets)
        \/ tree[n].kind = "AnnAssign" /\ tree[n].targets = <<"Name">>)

\* C18: chunk_code emits at most one global chunk, and emits it exactly when
\* the module body has an assignment to a plain name; num_globals is the
\* number of these statements, the content holds the source of each exactly
\* once, start_line is 1 and end_line the line count of the source.
C18_GlobalChunk ==
    Structural =>
        LET stmts == GlobalStatements(Tree)
            globals == OfTypes(Chunks, {"global"})
        IN /\ Len(globals) = (IF stmts # <<>> THEN 1 ELSE 0)
           /\ \A k \in 1..Len(globals) :
                 /\ globals[k].metadata.num_globals = Len(stmts)
                 /\ globals[k].content =
                        Join([i \in 1..Len(stmts) |->
                                 _get_node_source(Tree, stmts[i], SourceOf, TRUE)[1]],
                             "\n")
                 /\ globals[k].start_line = 1
                 /\ globals[k].end_line = Len(splitlines(SourceOf))

\* C19: MultiLanguageASTChunker.chunk_file routes by the extension alone: for
\* the suffix 'py' or 'python' the result is that of ASTCodeChunker.chunk_file
\* (default settings) on the file; for every other suffix, none and another
\* letter case included, it is that of the generic strategy.
C19_RoutesByExtension ==
    (call # NoCall /\ call.op = "multi_chunk_file") =>
        IF call.file_path \in PythonPaths
        THEN result = chunk_file(python_chunker, call.file_path, call.file)
        ELSE /\ result = _generic_chunk(call.file_path, call.file)
             /\ Returned =>
                    \A k \in 1..Len(Chunks) :
                        /\ Chunks[k].chunk_type \in {"function", "code_block"}
                        /\ DOMAIN Chunks[k].metadata = {"language"}

\* A Python text under the suffix 'python' gives structural chunks; this is
\* the state where the alias is used.
C19_Witness ==
    /\ call # NoCall /\ call.op = "multi_chunk_file"
    /\ call.file_path = "m.python"
    /\ call.file = Some("import os\n")
    /\ Returned /\ Len(Chunks) = 1
    /\ Chunks[1].chunk_type = "import"

\* C20: for a file with an unrecognized extension, m >= 1 matches of the
\* declaration pattern give exactly m 'function' chunks in match order, each
\* with start_line = end_line = 0 and the language tag as only metadata; no
\* match gives the 50-line windows tagged 'code_block' with start_line
\* 50k + 1 and end_line min(50k + 50, n); never both kinds.
C20_GenericExclusive ==
    (call # NoCall /\ call.op = "multi_chunk_file"
     /\ call.file_path \notin PythonPaths /\ call.file # None) =>
        /\ Returned
        /\ LET matches == FindAll(call.file[1])
               lines == splitlines(call.file[1])
               n == Len(lines)
           IN IF matches # <<>>
              THEN /\ Len(Chunks) = Len(matches)
                   /\ \A k \in 1..Len(Chunks) :
                         /\ Chunks[k].chunk_type = "function"
                         /\ Chunks[k].content = matches[k]
                         /\ Chunks[k].start_line = 0 /\ Chunks[k].end_line = 0
                         /\ DOMAIN Chunks[k].metadata = {"language"}
              ELSE /\ Len(Chunks) = (n + 49) \div 50
                   /\ \A k \in 0..(Len(Chunks) - 1) :
                         LET c == Chunks[k + 1]
                         IN /\ c.chunk_type = "code_block"
                            /\ c.start_line = 50 * k + 1
                            /\ c.end_line = Min(50 * k + 50, n)
                            /\ c.content = Join(SubSeq(lines, c.start_line,
                                                       c.end_line), "\n")
                            /\ DOMAIN c.metadata = {"language"}

\* A text with two declarations over six lines: two function chunks with
\* different contents, no line window.
C20_Witness ==
    /\ call # NoCall /\ call.op = "multi_chunk_file"
    /\ call.file_path = "lib.js" /\ call.file # None
    /\ Returned /\ Len(Chunks) = 2
    /\ Chunks[1].chunk_type = "function" /\ Chunks[2].chunk_type = "function"
    /\ Chunks[1].content = "static void main(String args) {\n  run();\n}"
    /\ Chunks[2].content = "func <T> id (x)\n{ return x; }"

\* The sum of the indexed_chunks of a list of file results.
RECURSIVE SumIndexed(_)
SumIndexed(rs) ==
    IF rs = <<>> THEN 0 ELSE Head(rs).indexed_chunks + SumIndexed(Tail(rs))

\* The error lists of a list of file results, one after the other.
RECURSIVE AllErrors(_)
AllErrors(rs) == IF rs = <<>> THEN <<>> ELSE Head(rs).errors \o AllErrors(Tail(rs))

\* The files under the directory that match one of the extensions.
MatchedFiles == {rag.files[k].path : k \in 1..Len(rag.files)}

\* C21: index_directory on an existing directory runs to its return; every
\* matched file is given to index_file exactly once, a file whose chunking
\* fails has a result with success false and an error and the loop goes on;
\* at the return total_files is the number of matched files, files_processed
\* has one entry for each, total_chunks is the sum of the indexed_chunks and
\* errors is the error lists one after the other.
C21_EveryFileOnce ==
    /\ rag.pc = "raised" => rag.results = None
    /\ rag.results # None =>
          \A k \in 1..Len(rag.log) :
              rag.log[k].chunked.raised =>
                 /\ ~rag.results[1].files_processed[k].success
                 /\ rag.results[1].files_processed[k].errors # <<>>
    /\ rag.pc = "done" =>
          LET res == rag.results[1]
          IN /\ res.total_files = Cardinality(MatchedFiles)
             /\ Len(res.files_processed) = Cardinality(MatchedFiles)
             /\ \A p \in MatchedFiles :
                   Cardinality({k \in 1..Len(res.files_processed) :
                                   res.files_processed[k].file_path = p}) = 1
             /\ res.total_chunks = SumIndexed(res.files_processed)
             /\ res.errors = AllErrors(res.files_processed)

\* The places of the chunks for which the services did one of `kinds`.
Places(outcomes, kinds) ==
    SelectSeq([k \in 1..Len(outcomes) |-> k], LAMBDA k : outcomes[k] \in kinds)

\* C22: index_file goes through every chunk whatever happened to the earlier
\* ones: a chunk is stored and counted in indexed_chunks, or it has exactly
\* one error; when the chunking succeeded indexed_chunks + len(errors) =
\* total_chunks; success is true exactly when errors is empty; a chunk whose
\* embedding is empty is not written to the store.
C22_EveryChunkAccounted ==
    rag.results # None =>
       \A i \in 1..Len(rag.log) :
          LET e == rag.log[i]
              r == rag.results[1].files_processed[i]
          IN /\ r.success <=> r.errors = <<>>
             /\ ~e.chunked.raised =>
                   LET chunks == e.chunked.value
                       stored == Places(e.outcomes, {"stored"})
                       failed == Places(e.outcomes, {"no_embedding", "store_error"})
                   IN /\ r.total_chunks = Len(chunks)
                      /\ r.indexed_chunks = Len(stored)
                      /\ r.indexed_chunks + Len(r.errors) = r.total_chunks
                      /\ [k \in 1..Len(r.errors) |-> r.errors[k].id]
                            = [k \in 1..Len(failed) |-> Some(chunks[failed[k]].id)]
                      /\ [k \in 1..Len(e.written) |-> e.written[k].content]
                            = [k \in 1..Len(stored) |-> chunks[stored[k]].content]
                      /\ \A k \in 1..Len(e.written) :
                            e.written[k].embedding # <<>>

\* A file of two chunks: the first has no embedding, the second is stored.
C22_Witness ==
    /\ rag.pc = "done"
    /\ \E i \in 1..Len(rag.log) :
          /\ ~rag.log[i].chunked.raised
          /\ rag.log[i].outcomes = <<"no_embedding", "stored">>
          /\ rag.results[1].files_processed[i].indexed_chunks = 1
          /\ Len(rag.results[1].files_processed[i].errors) = 1
          /\ ~rag.results[1].files_processed[i].success
          /\ Len(store) >= 1

\* C23: chunk_code writes nothing to the chunker instance: max_chunk_size
\* and include_context are the same after every step of every call; and
\* however the steps of two calls on the shared chunker interleave, each call
\* returns what the same call gives when it runs alone.
C23_CallsDoNotInterfere ==
    /\ [](\A t \in Threads :
             threads[t].pc = "done" =>
                threads[t].result = chunk_code(threads[t].self[1],
                                               threads[t].source_code,
                                               threads[t].file_path))
    /\ [][chunker' = chunker]_vars

\* One thread has returned the chunks of a class and its method while the
\* other, on another source, is in the middle of its walk.
C23_Witness ==
    /\ threads[1].pc = "done" /\ ~threads[1].result.raised
    /\ \E k \in 1..Len(threads[1].result.value) :
          threads[1].result.value[k].chunk_type = "method"
    /\ threads[2].pc = "walk"
    /\ threads[2].source_code # threads[1].source_code
    /\ threads[2].chunks # <<>> /\ threads[2].nodes # <<>>

\* The import statements of the tree, at any depth.
ImportNodes(tree) ==
    {n \in 1..Len(tree) : tree[n].kind \in {"Import", "ImportFrom"}}

\* The import statement that has r - 1 import statements on earlier lines.
ImportAt(tree, r) ==
    CHOOSE n \in ImportNodes(tree) :
        Cardinality({m \in ImportNodes(tree) : tree[m].lineno < tree[n].lineno})
            = r - 1

\* The statement as the import chunks show it.
ImportText(node) ==
    IF node.kind = "Import" THEN "import " \o Join(node.names, ", ")
    ELSE "from " \o (IF node.module = None THEN "" ELSE node.module[1])
         \o " import " \o Join(node.names, ", ")

RECURSIVE SumImports(_)
SumImports(chunks) ==
    IF chunks = <<>> THEN 0
    ELSE Head(chunks).metadata.num_imports + SumImports(Tail(chunks))

\* C24: the import chunks split the import statements of the whole tree among
\* themselves: the num_imports add up to the number of import statements,
\* and with the statements in line order chunk k holds the next num_imports
\* of them, each as one line of its content; its start_line is the line of
\* the first of them and its end_line the line of the last.
C24_ImportsPartitioned ==
    Structural =>
        LET tree == Tree
            imports == OfTypes(Chunks, {"import"})
            before(k) == SumImports(SubSeq(imports, 1, k - 1))
        IN /\ SumImports(imports) = Cardinality(ImportNodes(tree))
           /\ \A k \in 1..Len(imports) :
                 LET num == imports[k].metadata.num_imports
                 IN /\ num >= 1
                    /\ SplitNl(imports[k].content)
                          = [j \in 1..num |->
                                ImportText(tree[ImportAt(tree, before(k) + j)])]
                    /\ imports[k].start_line
                          = tree[ImportAt(tree, before(k) + 1)].lineno
                    /\ imports[k].end_line
                          = tree[ImportAt(tree, before(k) + num)].lineno

\* A module import and, inside a function three lines below, another one:
\* two import chunks, the second for the statement in the function.
C24_Witness ==
    /\ Structural
    /\ SourceOf = Render(<<"from", "inner">>)
    /\ Len(OfTypes(Chunks, {"import"})) = 2
    /\ OfTypes(Chunks, {"import"})[1].content = "from a import b, c"
    /\ OfTypes(Chunks, {"import"})[2].content = "import sys"
    /\ OfTypes(Chunks, {"import"})[2].start_line = 3

\* What the two settings of include_context give for one call: the same
\* outcome; the chunks agree in number, order, type, line bounds, metadata,
\* parent_context and file_path; a method chunk's content with the flag is
\* the line '# In class: <class name>' and then its content without the flag,
\* which is the dedented source of the method; every other chunk has the same
\* content and id.
SameButContext(with, without) ==
    /\ with.raised = without.raised
    /\ with.raised => with.exc = without.exc
    /\ ~with.raised =>
          /\ Len(with.value) = Len(without.value)
          /\ \A k \in 1..Len(with.value) :
                LET a == with.value[k]
                    b == without.value[k]
                IN /\ a.chunk_type = b.chunk_type
                   /\ a.start_line = b.start_line /\ a.end_line = b.end_line
                   /\ a.metadata = b.metadata
                   /\ a.parent_context = b.parent_context
                   /\ a.file_path = b.file_path
                   /\ IF a.chunk_type = "method"
                      THEN /\ a.content = "# In class: " \o a.metadata.class_name
                                          \o "\n" \o b.content
                           /\ b.content = SourceSpan(b)
                      ELSE a.content = b.content /\ a.id = b.id

\* C25: include_context changes only the content (and so the id) of the
\* method chunks: the call in hand, made again on a chunker with the other
\* setting, gives the same chunks but for the context line of the methods.
C25_ContextOnlyInMethods ==
    IsChunkCode =>
        IF chunker.include_context
        THEN SameButContext(result,
                 chunk_code([chunker EXCEPT !.include_context = FALSE],
                            SourceOf, call.file_path))
        ELSE SameButContext(
                 chunk_code([chunker EXCEPT !.include_context = TRUE],
                            SourceOf, call.file_path),
                 result)

\* A call without include_context that gave a class chunk and a method chunk
\* whose content starts with the method's header.
C25_Witness ==
    /\ Structural
    /\ ~chunker.include_context
    /\ SourceOf = Render(<<"clsdoc">>)
    /\ Len(Chunks) = 2
    /\ Chunks[1].chunk_type = "class"
    /\ Chunks[2].chunk_type = "method"
    /\ StartsWith(Chunks[2].content, "def _p(self, x)")

\* A max_chunk_size below the length of every class and function.
SmallSizes == {10}

MethodsAfter(i) ==
    {j \in (i + 1)..Len(Chunks) :
        \A l \in (i + 1)..j :
            /\ Chunks[l].chunk_type = "method"
            /\ Chunks[l].parent_context = Some(Chunks[i].metadata.class_name)}

\* C27: each class chunk spans the lines of its class, its num_methods is
\* the number of method chunks emitted directly after it for that class, and
\* each of these lies in the class chunk's line range and starts below its
\* first line.
C27_ClassAndItsMethods ==
    Structural =>
        LET tree == Tree
        IN \A i \in 1..Len(Chunks) :
              Chunks[i].chunk_type = "class" =>
                 /\ \E n \in 1..Len(tree) :
                       /\ tree[n].kind = "ClassDef"
                       /\ tree[n].name = Chunks[i].metadata.class_name
                       /\ tree[n].lineno = Chunks[i].start_line
                       /\ tree[n].end_lineno = Chunks[i].end_line
                 /\ Chunks[i].metadata.num_methods = Cardinality(MethodsAfter(i))
                 /\ \A j \in MethodsAfter(i) :
                       /\ Chunks[i].start_line < Chunks[j].start_line
                       /\ Chunks[j].end_line <= Chunks[i].end_line

\* The module starts with a string that is not empty.
HasModuleDocstring(tree) ==
    /\ Len(tree) >= 1
    /\ tree[1].kind = "Expr"
    /\ tree[1].value # None
    /\ tree[1].value # Some("")

\* C28: a module_docstring chunk is emitted exactly when the module has a
\* leading docstring that is not empty; it is then the only one and the first
\* chunk, its start_line is 1, its end_line the line count of the docstring
\* plus 2, and its metadata 'module' the stem of the file path.
C28_ModuleDocstring ==
    Structural =>
        LET tree == Tree
            docs == OfTypes(Chunks, {"module_docstring"})
        IN IF HasModuleDocstring(tree)
           THEN /\ Len(docs) = 1
                /\ Chunks[1].chunk_type = "module_docstring"
                /\ Chunks[1].start_line = 1
                /\ Chunks[1].end_line = Len(SplitNl(tree[1].value[1])) + 2
                /\ Chunks[1].metadata.module
                      = (IF call.file_path = "a.py" THEN "a" ELSE "mod")
           ELSE docs = <<>>

\* A docstring of two lines in src/mod.py: the chunk ends at line 4 and names
\* the module mod.
C28_Witness ==
    /\ Structural
    /\ call.file_path = "src/mod.py"
    /\ SourceOf = "'''A\nB'''\n"
    /\ Len(Chunks) = 1
    /\ Chunks[1].chunk_type = "module_docstring"
    /\ Chunks[1].end_line = 4
    /\ Chunks[1].metadata.module = "mod"

\* The name starts with one underscore and not with two.
SingleUnderscore(name) == StartsWith(name, "_") /\ ~StartsWith(name, "__")

\* C29: in every method chunk is_private is true exactly when the method
\* name starts with a single underscore, and is_dunder exactly when it starts
\* and ends with two; the single-underscore rule gives is_private of the
\* function chunks as well.
C29_PrivateAndDunder ==
    Structural =>
        \A k \in 1..Len(Chunks) :
            /\ Chunks[k].chunk_type = "method" =>
                  /\ Chunks[k].metadata.is_private
                        <=> SingleUnderscore(Chunks[k].metadata.method_name)
                  /\ Chunks[k].metadata.is_dunder
                        <=> /\ StartsWith(Chunks[k].metadata.method_name, "__")
                            /\ EndsWith(Chunks[k].metadata.method_name, "__")
            /\ Chunks[k].chunk_type = "function" =>
                  Chunks[k].metadata.is_private
                     <=> SingleUnderscore(Chunks[k].metadata.function_name)

\* The chunks of the given type for the definition n: its name and lines.
ChunksFor(tree, n, type) ==
    {k \in 1..Len(Chunks) :
        /\ Chunks[k].chunk_type = type
        /\ Chunks[k].start_line = tree[n].lineno
        /\ Chunks[k].end_line = tree[n].end_lineno
        /\ tree[n].name = (IF type = "class" THEN Chunks[k].metadata.class_name
                           ELSE IF type = "method"
                           THEN Chunks[k].metadata.method_name
                           ELSE Chunks[k].metadata.function_name)}

AnyDefinition == {"ClassDef", "FunctionDef", "AsyncFunctionDef"}

\* C30: in a structural result a function definition that is a direct member
\* of a class body has one method chunk and no function chunk; one that no
\* class or function encloses has one function chunk and no method chunk;
\* every other one has neither; and every class, at any depth, has its own
\* class chunk.
C30_OneChunkPerDefinition ==
    Structural =>
        LET tree == Tree
        IN \A n \in 1..Len(tree) :
              /\ tree[n].kind \in {"FunctionDef", "AsyncFunctionDef"} =>
                    LET methods == Cardinality(ChunksFor(tree, n, "method"))
                        functions == Cardinality(ChunksFor(tree, n, "function"))
                    IN IF tree[n].parent # 0
                          /\ tree[tree[n].parent].kind = "ClassDef"
                       THEN methods = 1 /\ functions = 0
                       ELSE IF ~Enclosed(tree, n, AnyDefinition)
                       THEN methods = 0 /\ functions = 1
                       ELSE methods = 0 /\ functions = 0
              /\ tree[n].kind = "ClassDef" =>
                    Cardinality(ChunksFor(tree, n, "class")) = 1

====
